---------------------------- MODULE Spec2Model ----------------------------
(***************************************************************************)
(* A model of tsny/shopsync's player-name inference (package icalplayers). *)
(* Go strings are TLA+ strings; TLC evaluates Len, SubSeq, Head, Tail and  *)
(* \o on them, so every helper below works character by character, as the *)
(* Go standard-library function it stands for does.                        *)
(***************************************************************************)
EXTENDS Integers, Sequences, FiniteSets, TLC

VARIABLES
    desc,        \* InferPlayerNames' argument desc
    dict,        \* InferPlayerNames' argument dict (present = FALSE: nil)
    pc,          \* the position inside the call being modelled
    candidates,  \* the local slice candidates
    cueCands,    \* history: candidates as they stood after the cue-line loop
    ran,         \* history: the stages whose body has run, in order
    result,      \* the returned slice
    chunk,       \* acceptByDict's argument chunk (specification SpecDict)
    accepted,    \* acceptByDict's return value (specification SpecDict)
    renorm,      \* normalizeAndDedup of result (specification SpecIdem)
    sortedChunks,\* titleCaseChunks' returned slice (specification SpecChunks)
    args,        \* main: the command-line flags as given
    dbURL,       \* main: the environment variable DATABASE_URL
    events,      \* main: the slice events
    teams,       \* main: the slice teams
    next,        \* main: the index of the event the storing loop is at
    calls,       \* history: the Store methods main has called, with outcome
    exitCode,    \* main: "running", or how the process ended
    tablesExist, \* Store: the tables shows and show_teams exist
    shows,       \* Store: the rows of table shows, by uid
    showTeams,   \* Store: the rows of table show_teams
    upserts,     \* history: the events of the Upsert calls that succeeded
    pruned,      \* history: Drop or DeletePastEvents has succeeded
    lastErr      \* Store: the error the last call returned ("" for nil)

\* The variables of the calls into package icalplayers.
pipeVars == <<desc, dict, pc, candidates, cueCands, ran, result, chunk, accepted>>

\* The variables only the specifications after SpecNorm write.
\* The variables of the command-line driver.
mainVars == <<args, dbURL, events, teams, next, calls, exitCode>>

\* The variables of package showstore.
storeVars == <<tablesExist, shows, showTeams, upserts, pruned, lastErr>>

auxVars == <<renorm, sortedChunks, mainVars, storeVars>>

vars == <<pipeVars, auxVars>>

----------------------------------------------------------------------------
(* Bounds of the model.                                                    *)

\* Lines per description drawn by Init.
MaxLines == 2

\* Candidate strings per list drawn by InitNorm.
MaxCands == 3

\* Events per calendar read by the driver.
MaxEvents == 2

\* Successful Upsert calls per behaviour of the store.
MaxUpserts == 3

----------------------------------------------------------------------------
(* Characters: unicode and UTF-8 facts the code relies on.                 *)

Ch(s, i) == SubSeq(s, i, i)

Chars(s) == {Ch(s, i) : i \in 1..Len(s)}

Range(q) == {q[i] : i \in 1..Len(q)}

UpperLetters == "ABCDEFGHIJKLMNOPQRSTUVWXYZÉÑ"

LowerLetters == "abcdefghijklmnopqrstuvwxyzéñ"

\* The printable ASCII characters in code order: U+0020 to U+005F, and
\* U+0061 to U+007E (U+0060 cannot be written in a TLA+ string and is not
\* in the model's alphabet).
AsciiLow == " !\"#$%&'()*+,-./0123456789:;<=>?@ABCDEFGHIJKLMNOPQRSTUVWXYZ[\\]^_"

AsciiHigh == "abcdefghijklmnopqrstuvwxyz{|}~"

AsciiCode == [c \in Chars(AsciiLow) \cup Chars(AsciiHigh) |->
                IF c \in Chars(AsciiLow)
                THEN 31 + (CHOOSE i \in 1..Len(AsciiLow) : Ch(AsciiLow, i) = c)
                ELSE 96 + (CHOOSE i \in 1..Len(AsciiHigh) : Ch(AsciiHigh, i) = c)]

\* The UTF-8 encoding of one character, as Go's string bytes hold it.
Utf8(c) ==
    CASE c \in DOMAIN AsciiCode -> <<AsciiCode[c]>>
      [] c = "\t" -> <<9>>
      [] c = "\n" -> <<10>>
      [] c = "\f" -> <<12>>
      [] c = "\r" -> <<13>>
      [] c = "É" -> <<195, 137>>
      [] c = "Ñ" -> <<195, 145>>
      [] c = "é" -> <<195, 169>>
      [] c = "ñ" -> <<195, 177>>

Max(S) == CHOOSE x \in S : \A y \in S : y <= x

Min(S) == CHOOSE x \in S : \A y \in S : x <= y

\* The k-th smallest element of a set of numbers.
Kth(S, k) == CHOOSE x \in S : Cardinality({y \in S : y < x}) = k - 1

\* q[lo] \o ... \o q[hi] for a sequence q of strings, by halves (the depth of
\* the evaluation stays logarithmic in the length).
RECURSIVE CatRange(_, _, _)
CatRange(q, lo, hi) ==
    IF lo > hi THEN ""
    ELSE IF lo = hi THEN q[lo]
    ELSE LET mid == (lo + hi) \div 2
         IN CatRange(q, lo, mid) \o CatRange(q, mid + 1, hi)

Cat(q) == CatRange(q, 1, Len(q))

RECURSIVE BytesRange(_, _, _)
BytesRange(s, lo, hi) ==
    IF lo > hi THEN <<>>
    ELSE IF lo = hi THEN Utf8(Ch(s, lo))
    ELSE LET mid == (lo + hi) \div 2
         IN BytesRange(s, lo, mid) \o BytesRange(s, mid + 1, hi)

Bytes(s) == BytesRange(s, 1, Len(s))

\* Go's len(s): the number of bytes.
ByteLen(s) == Len(Bytes(s))

IsUpper(c) == c \in Chars(UpperLetters)

IsLower(c) == c \in Chars(LowerLetters)

IsLetter(c) == IsUpper(c) \/ IsLower(c)

SpaceChars == {" ", "\t", "\n", "\f", "\r"}

IsSpace(c) == c \in SpaceChars

LowerOf == [c \in Chars(UpperLetters) |-> Ch(LowerLetters, CHOOSE i \in 1..Len(UpperLetters) : Ch(UpperLetters, i) = c)]

UpperOf == [c \in Chars(LowerLetters) |-> Ch(UpperLetters, CHOOSE i \in 1..Len(LowerLetters) : Ch(LowerLetters, i) = c)]

ToLowerC(c) == IF c \in DOMAIN LowerOf THEN LowerOf[c] ELSE c

ToUpperC(c) == IF c \in DOMAIN UpperOf THEN UpperOf[c] ELSE c

----------------------------------------------------------------------------
(* package strings                                                         *)

ToLower(s) == Cat([i \in 1..Len(s) |-> ToLowerC(Ch(s, i))])

ToUpper(s) == Cat([i \in 1..Len(s) |-> ToUpperC(Ch(s, i))])

\* strings.Title: the first letter of every word upper-cased; a word starts
\* at the start and after any character that is not a letter, digit or
\* underscore.
Title(s) ==
    LET wordChar(c) == IsLetter(c) \/ c \in Chars("0123456789_")
    IN Cat([i \in 1..Len(s) |->
                IF i = 1 \/ ~wordChar(Ch(s, i - 1)) THEN ToUpperC(Ch(s, i)) ELSE Ch(s, i)])

HasPrefixAt(s, p, t) == p + Len(t) - 1 <= Len(s) /\ SubSeq(s, p, p + Len(t) - 1) = t

Contains(s, t) == \E p \in 1..(Len(s) + 1) : HasPrefixAt(s, p, t)

\* strings.ReplaceAll for a non-empty old: the matches taken left to right,
\* none overlapping.
RECURSIVE ReplaceFrom(_, _, _, _)
ReplaceFrom(s, old, new, from) ==
    LET hits == {p \in from..Len(s) : HasPrefixAt(s, p, old)}
    IN IF hits = {} THEN SubSeq(s, from, Len(s))
       ELSE SubSeq(s, from, Min(hits) - 1) \o new \o ReplaceFrom(s, old, new, Min(hits) + Len(old))

ReplaceAll(s, old, new) == ReplaceFrom(s, old, new, 1)

\* strings.Split(s, sep) for a one-character sep: every piece, empty ones too.
Split(s, sep) ==
    LET n == Len(s)
        cuts == {0, n + 1} \cup {i \in 1..n : Ch(s, i) = sep}
    IN [k \in 1..(Cardinality(cuts) - 1) |-> SubSeq(s, Kth(cuts, k) + 1, Kth(cuts, k + 1) - 1)]

\* strings.FieldsFunc(s, f) with f the membership in seps: the maximal runs
\* of characters outside seps, none empty.
FieldsFunc(s, seps) ==
    LET n == Len(s)
        isSep(i) == Ch(s, i) \in seps
        starts == {i \in 1..n : ~isSep(i) /\ (i = 1 \/ isSep(i - 1))}
        endOf(i) == Min({j \in i..n : j = n \/ isSep(j + 1)})
    IN [k \in 1..Cardinality(starts) |-> SubSeq(s, Kth(starts, k), endOf(Kth(starts, k)))]

Fields(s) == FieldsFunc(s, SpaceChars)

Join(q, sep) ==
    IF Len(q) = 0 THEN ""
    ELSE Cat([i \in 1..(2 * Len(q) - 1) |-> IF i % 2 = 1 THEN q[(i + 1) \div 2] ELSE sep])

Trim(s, cut) ==
    LET keep == {i \in 1..Len(s) : Ch(s, i) \notin cut}
    IN IF keep = {} THEN "" ELSE SubSeq(s, Min(keep), Max(keep))

TrimSpace(s) == Trim(s, SpaceChars)

\* strings.IndexAny, 1-based; 0 when no character of s is in set.
IndexAny(s, set) ==
    LET hits == {i \in 1..Len(s) : Ch(s, i) \in set}
    IN IF hits = {} THEN 0 ELSE Min(hits)

\* Go's < on strings: bytewise.
SeqLess(a, b) ==
    LET m == IF Len(a) < Len(b) THEN Len(a) ELSE Len(b)
        diff == {i \in 1..m : a[i] # b[i]}
    IN IF diff = {} THEN Len(a) < Len(b) ELSE a[Min(diff)] < b[Min(diff)]

StrLess(a, b) == SeqLess(Bytes(a), Bytes(b))

----------------------------------------------------------------------------
(* package regexp: the two patterns of the package, as item sequences.     *)
(* An item is a literal (lit), a run of \s (ws, at least min long) or the  *)
(* class [:\-] (sep). fold = TRUE is the (?i) flag.                        *)

Lit(t) == [kind |-> "lit", text |-> t, min |-> 0]

WsStar == [kind |-> "ws", text |-> "", min |-> 0]

WsPlus == [kind |-> "ws", text |-> "", min |-> 1]

SepClass == [kind |-> "sep", text |-> "", min |-> 0]

\* The length of the run of \s characters of s that starts at p.
WsRun(s, p) ==
    LET stops == {q \in p..Len(s) : ~IsSpace(Ch(s, q))}
    IN IF stops = {} THEN Len(s) + 1 - p ELSE Min(stops) - p

\* The positions q such that items match s[p..q-1].
RECURSIVE MatchItems(_, _, _, _)
MatchItems(items, s, p, fold) ==
    IF items = <<>> THEN {p}
    ELSE LET it == Head(items)
             rest == Tail(items)
             n == Len(it.text)
         IN CASE it.kind = "lit" ->
                   IF p + n - 1 <= Len(s)
                      /\ (IF fold THEN ToLower(SubSeq(s, p, p + n - 1)) ELSE SubSeq(s, p, p + n - 1)) = it.text
                   THEN MatchItems(rest, s, p + n, fold)
                   ELSE {}
              [] it.kind = "ws" ->
                   UNION {MatchItems(rest, s, p + j, fold) : j \in it.min..WsRun(s, p)}
              [] it.kind = "sep" ->
                   IF p <= Len(s) /\ Ch(s, p) \in {":", "-"}
                   THEN MatchItems(rest, s, p + 1, fold)
                   ELSE {}

\* The alternatives of cueLine's first group, ? and (?:ed)? written out.
cueRoles ==
    { <<Lit("player")>>, <<Lit("players")>>, <<Lit("cast")>>, <<Lit("featuring")>>,
      <<Lit("with")>>, <<Lit("lineup")>>, <<Lit("performer")>>, <<Lit("performers")>>,
      <<Lit("host"), WsStar, Lit("by")>>, <<Lit("hosted"), WsStar, Lit("by")>>,
      <<Lit("guest")>>, <<Lit("guests")>>,
      <<Lit("special"), WsPlus, Lit("guest")>>, <<Lit("special"), WsPlus, Lit("guests")>>,
      <<Lit("musical"), WsPlus, Lit("guest")>> }

\* cueLine.FindStringSubmatch(ln): the pairs <<m[1], m[2]>> of the match, {} for
\* no match. After the role come \s*[:\-]\s* and (.+), which takes the rest of
\* the line and needs one character; the greedy \s* gives it the latest start.
cueLine(ln) ==
    LET roleEnds == UNION {MatchItems(r, ln, 1, TRUE) : r \in cueRoles}
        starts(e) == {q \in MatchItems(<<WsStar, SepClass, WsStar>>, ln, e, TRUE) : q <= Len(ln)}
    IN { <<SubSeq(ln, 1, e - 1), SubSeq(ln, Max(starts(e)), Len(ln))>> :
            e \in {x \in roleEnds : starts(x) # {}} }

sepAlts == {",", "&", " and ", ";", "+"}

\* The end (the position after it) of sepRe's match that starts at p; 0 for none.
\* Both \s* are greedy, and at most one alternative can follow the first.
sepMatchEnd(s, p) ==
    LET ends == UNION {MatchItems(<<WsStar, Lit(a), WsStar>>, s, p, FALSE) : a \in sepAlts}
    IN IF ends = {} THEN 0 ELSE Max(ends)

\* sepRe.Split(values, -1): the text between the leftmost matches, the tail
\* included.
RECURSIVE sepSplitFrom(_, _, _)
sepSplitFrom(s, beg, acc) ==
    LET hits == {p \in beg..Len(s) : sepMatchEnd(s, p) # 0}
    IN IF hits = {} THEN Append(acc, SubSeq(s, beg, Len(s)))
       ELSE sepSplitFrom(s, sepMatchEnd(s, Min(hits)), Append(acc, SubSeq(s, beg, Min(hits) - 1)))

sepReSplit(s) == IF s = "" THEN <<"">> ELSE sepSplitFrom(s, 1, <<>>)

----------------------------------------------------------------------------
(* package icalplayers: the stop tables and the lexical predicates.        *)

stopPhrases ==
    { "doors open", "general admission", "improv jam", "open mic", "musical guest",
      "guest team", "on tech", "improv from", "vs", "vs.", "team" }

stopSingles ==
    { "Show", "Jam", "Night", "The", "Team", "House", "Doors", "Open", "Admission",
      "Free", "Improv", "Guest", "Guests", "Special", "Musical", "Featuring" }

\* Nothing in the code depends on the order in which the map stopPhrases is
\* ranged over: the loop returns TRUE as soon as any key is a substring.
containsStopContext(line) ==
    LET l == ToLower(line)
    IN \E k \in stopPhrases : Contains(l, k)

\* The third character the code lets through, U+2019, cannot be written in a
\* TLA+ string and is not in the model's alphabet.
allLettersDot(s) ==
    \A i \in 1..Len(s) : IsLetter(Ch(s, i)) \/ Ch(s, i) \in {".", "'"}

looksLikeNameToken(tok) ==
    IF tok = "" THEN FALSE
    ELSE IF ByteLen(tok) <= 3 /\ allLettersDot(tok) /\ ToUpper(tok) = tok THEN TRUE
    ELSE IsUpper(Head(tok))

isStopSingle(s) == s \in stopSingles

\* cleanName without the limit of three tokens.
cleanNameNoLimit(s0) ==
    LET s1 == TrimSpace(s0)
        i == IndexAny(s1, {"(", "[", "{", "-"})
        s2 == IF i > 0 THEN TrimSpace(SubSeq(s1, 1, i - 1)) ELSE s1
        s3 == Trim(s2, {"\"", "'"})
        s == Join(Fields(s3), " ")
        parts == Split(s, " ")
    IN IF \A k \in 1..Len(parts) : looksLikeNameToken(parts[k]) THEN s ELSE ""

cleanName(s0) ==
    LET s1 == TrimSpace(s0)
        i == IndexAny(s1, {"(", "[", "{", "-"})
        s2 == IF i > 0 THEN TrimSpace(SubSeq(s1, 1, i - 1)) ELSE s1
        s3 == Trim(s2, {"\"", "'"})
        s == Join(Fields(s3), " ")
        parts == Split(s, " ")
    IN IF Len(parts) = 0 \/ Len(parts) > 3 THEN ""
       ELSE IF \A k \in 1..Len(parts) : looksLikeNameToken(parts[k]) THEN s
       ELSE ""

isStopPhrase(s) ==
    LET ls == ToLower(TrimSpace(s))
        parts == Fields(ls)
    IN IF ls \in stopPhrases THEN TRUE
       ELSE Len(parts) = 2 /\ (Title(parts[1]) \in stopSingles \/ Title(parts[2]) \in stopSingles)

\* acceptByDict with && for || in case 2: both names must be known.
acceptByDictBothNames(c, d) ==
    IF ~d.present THEN Len(Fields(c)) >= 2
    ELSE LET lc == ToLower(c)
             parts == Fields(lc)
         IN IF lc \in d.Full THEN TRUE
            ELSE CASE Len(parts) = 1 -> parts[1] \in d.First
                   [] Len(parts) = 2 -> parts[1] \in d.First /\ parts[2] \in d.Last
                   [] Len(parts) = 3 -> parts[1] \in d.First \/ parts[3] \in d.Last
                   [] OTHER -> FALSE

acceptByDict(c, d) ==
    IF ~d.present THEN Len(Fields(c)) >= 2
    ELSE LET lc == ToLower(c)
             parts == Fields(lc)
         IN IF lc \in d.Full THEN TRUE
            ELSE CASE Len(parts) = 1 -> parts[1] \in d.First
                   [] Len(parts) = 2 -> parts[1] \in d.First \/ parts[2] \in d.Last
                   [] Len(parts) = 3 -> parts[1] \in d.First \/ parts[3] \in d.Last
                   [] OTHER -> FALSE

----------------------------------------------------------------------------
(* The chunk tokenizer and the single-token scan.                          *)

\* The delimiters of the FieldsFunc calls; the en and em dash of the code
\* cannot be written in a TLA+ string and are not in the model's alphabet.
wordDelims == SpaceChars \cup Chars(",;:!?.()[]{}|/\\+-")

quoteChars == {"\"", "'"}

flush(buf, chunks) ==
    IF Len(buf) >= 1 /\ Len(buf) <= 3 THEN Append(chunks, Join(buf, " ")) ELSE chunks

\* The loop over words and the flush after it: the chunks in text order.
RECURSIVE chunkRuns(_, _, _, _)
chunkRuns(words, i, buf, chunks) ==
    IF i > Len(words) THEN flush(buf, chunks)
    ELSE LET w == Trim(words[i], quoteChars)
         IN IF w = "" THEN chunkRuns(words, i + 1, buf, chunks)
            ELSE IF looksLikeNameToken(w) /\ ~isStopSingle(w)
                 THEN chunkRuns(words, i + 1, Append(buf, w), chunks)
                 ELSE chunkRuns(words, i + 1, <<>>, flush(buf, chunks))

unsortedChunks(text) == chunkRuns(FieldsFunc(text, wordDelims), 1, <<>>, <<>>)

RemoveAt(q, i) == SubSeq(q, 1, i - 1) \o SubSeq(q, i + 1, Len(q))

RECURSIVE Perms(_)
Perms(q) ==
    IF q = <<>> THEN {<<>>}
    ELSE UNION { {<<q[i]>> \o r : r \in Perms(RemoveAt(q, i))} : i \in 1..Len(q) }

wordCount(c) == Len(Fields(c))

\* slices.SortFunc by word count, descending. The sort is not guaranteed to be
\* stable: chunks of equal word count may end in any order. A chunk has 1 to 3
\* words.
sortByWordCount(chunks) ==
    LET g(n) == SelectSeq(chunks, LAMBDA c : wordCount(c) = n)
    IN { a \o b \o c : a \in Perms(g(3)), b \in Perms(g(2)), c \in Perms(g(1)) }

\* The slices titleCaseChunks may return for text.
titleCaseChunks(text) == sortByWordCount(unsortedChunks(text))

singleTitleTokens(text) ==
    LET words == FieldsFunc(text, wordDelims)
        trimmed == [i \in 1..Len(words) |-> Trim(words[i], quoteChars)]
    IN SelectSeq(trimmed, LAMBDA w : looksLikeNameToken(w) /\ ~isStopSingle(w))

----------------------------------------------------------------------------
(* The normalizer.                                                         *)

whitespaceCollapsed(s) == Join(Fields(s), " ")

dedupKey(sn) == ToLower(Fields(sn)[1])

\* bestFold with >= for >: on equal length the last seen wins.
RECURSIVE bestFoldLastWins(_, _, _)
bestFoldLastWins(in, i, best) ==
    IF i > Len(in) THEN best
    ELSE LET sn == whitespaceCollapsed(in[i])
         IN IF sn = "" THEN bestFoldLastWins(in, i + 1, best)
            ELSE LET base == dedupKey(sn)
                 IN IF base \notin DOMAIN best \/ ByteLen(sn) >= ByteLen(best[base])
                    THEN bestFoldLastWins(in, i + 1,
                                  [k \in DOMAIN best \cup {base} |-> IF k = base THEN sn ELSE best[k]])
                    ELSE bestFoldLastWins(in, i + 1, best)

\* The first loop: the map best, longest string per lower-cased first token.
RECURSIVE bestFold(_, _, _)
bestFold(in, i, best) ==
    IF i > Len(in) THEN best
    ELSE LET sn == whitespaceCollapsed(in[i])
         IN IF sn = "" THEN bestFold(in, i + 1, best)
            ELSE LET base == dedupKey(sn)
                 IN IF base \notin DOMAIN best \/ ByteLen(sn) > ByteLen(best[base])
                    THEN bestFold(in, i + 1,
                                  [k \in DOMAIN best \cup {base} |-> IF k = base THEN sn ELSE best[k]])
                    ELSE bestFold(in, i + 1, best)

bestOf(in) == bestFold(in, 1, [k \in {} |-> ""])

\* The second loop, ranging over best in the order of keys given.
RECURSIVE seenFold(_, _, _, _, _)
seenFold(best, order, i, seen, out) ==
    IF i > Len(order) THEN out
    ELSE LET v == best[order[i]]
             l == ToLower(v)
         IN IF l \in seen THEN seenFold(best, order, i + 1, seen, out)
            ELSE seenFold(best, order, i + 1, seen \cup {l}, Append(out, v))

RECURSIVE InsertSorted(_, _)
InsertSorted(q, x) ==
    IF q = <<>> THEN <<x>>
    ELSE IF StrLess(x, Head(q)) THEN <<x>> \o q
    ELSE <<Head(q)>> \o InsertSorted(Tail(q), x)

\* slices.Sort on strings.
RECURSIVE SortStrings(_)
SortStrings(q) == IF q = <<>> THEN <<>> ELSE InsertSorted(SortStrings(Tail(q)), Head(q))

RECURSIVE PermsOfSet(_)
PermsOfSet(S) ==
    IF S = {} THEN {<<>>}
    ELSE UNION { {<<x>> \o r : r \in PermsOfSet(S \ {x})} : x \in S }

\* The orders in which a range over the map best may visit its keys.
mapOrders(best) == PermsOfSet(DOMAIN best)

\* normalizeAndDedup without the final slices.Sort.
normalizeAndDedupUnsorted(in, order) ==
    seenFold(bestOf(in), order, 1, {}, <<>>)

\* normalizeAndDedup(in), with the map best visited in the given order.
normalizeAndDedup(in, order) ==
    SortStrings(seenFold(bestOf(in), order, 1, {}, <<>>))

----------------------------------------------------------------------------
(* InferPlayerNames, stage by stage.                                       *)

crlfNormalized(d) == ReplaceAll(d, "\r\n", "\n")

linesOf(d) == Split(crlfNormalized(d), "\n")

isNonPlayerRole(role) == Contains(role, "host") \/ Contains(role, "musical")

\* The body of the cue-line loop for one line: the names it appends.
cueLineNames(ln0) ==
    LET ln == TrimSpace(ln0)
        m == cueLine(ln)
    IN IF ln = "" \/ m = {} THEN <<>>
       ELSE LET mm == CHOOSE x \in m : TRUE
                role == ToLower(TrimSpace(mm[1]))
                parts == sepReSplit(mm[2])
                names == [i \in 1..Len(parts) |-> cleanName(parts[i])]
            IN SelectSeq(names, LAMBDA n : n # "" /\ ~containsStopContext(ln)
                                           /\ ~isNonPlayerRole(role))

RECURSIVE ConcatAll(_)
ConcatAll(qs) == IF qs = <<>> THEN <<>> ELSE Head(qs) \o ConcatAll(Tail(qs))

cueScan(d) ==
    LET lines == linesOf(d)
    IN ConcatAll([i \in 1..Len(lines) |-> cueLineNames(lines[i])])

\* The chunking stage entered whatever the cue lines gave.
needsChunkingAlways(cands) == TRUE

needsChunking(cands) == Len(cands) = 0

chunkAccepted(c, d) == ~isStopPhrase(c) /\ acceptByDict(c, d)

needsFallback(cands, d) == Len(cands) = 0 /\ d.present /\ d.First # {}

\* The fallback without the look-up in dict.First.
fallbackAcceptedAnyName(tok, d) == ~isStopSingle(tok)

fallbackAccepted(tok, d) == ToLower(tok) \in d.First /\ ~isStopSingle(tok)

----------------------------------------------------------------------------
(* The inputs the specifications draw from.                                *)

NilDict == [present |-> FALSE, First |-> {}, Last |-> {}, Full |-> {}]

\* What LoadNameDict("") returns.
EmptyDict == [present |-> TRUE, First |-> {}, Last |-> {}, Full |-> {}]

SamDict == [present |-> TRUE, First |-> {"sam"}, Last |-> {}, Full |-> {}]

FullDict == [present |-> TRUE, First |-> {"alex", "show", "join"}, Last |-> {"rivera", "lee"},
             Full |-> {"sam okafor"}]

Dicts == {NilDict, EmptyDict, SamDict, FullDict}

\* A dictionary whose Full set has a name of four words.
WideDict == [present |-> TRUE, First |-> {"sam"}, Last |-> {"lee"},
             Full |-> {"bo diddley jr sr"}]

\* The dictionaries InitDict draws from.
AcceptDicts == Dicts \cup {WideDict}

Lines ==
    { "Hosted by: Alex Lee",
      "Cast: Jane Doe, John Smith",
      "Featuring Sam Okafor and J. Rivera",
      "Join Sam for a great show!",
      "Musical Guest: The Band",
      "Cast:  Improv  Jam & Show + sam lee; SAM LEE",
      "With - \"Sam Lee\" (host); Sam Roe-Smith ,Mary  Jo   Lee & Bo Diddley Jr Sr",
      "Sam Lee met Sam Roe",
      "Improv Jam SHOW with Al" }

Eols == {"\n", "\r\n"}

Descs ==
    UNION { {Join(ls, eol) : ls \in [1..n -> Lines], eol \in Eols} : n \in 1..MaxLines }

DictChunks ==
    { "", "Sam", "Show", "Al", "Sam Okafor", "J Rivera", "Alex Lee", "Jane Doe",
      "Join Sam", "SAM OKAFOR", "Mary Jo Lee", "Sam De Rivera", "Alex Van Roe",
      "Bo Diddley Jr Sr", "Jo Lee Roe", "Lee Alex" }

NormPool ==
    { "Sam", "Sam Lee", "sam  roe", "SAM LEE", "Al Roe", "  ", " Al", "Zoé Lee", "Zoé Éñ" }

CandLists == UNION { [1..n -> NormPool] : n \in 0..MaxCands }

----------------------------------------------------------------------------
(* Specification Spec: one call of InferPlayerNames.                       *)

\* Nothing outside the call under study has run.
AuxIdle ==
    /\ renorm = <<>>
    /\ sortedChunks = <<>>
    /\ args = [dryRun |-> "unset", recreateDB |-> FALSE, postURL |-> "", src |-> "",
               useTeamsFile |-> FALSE]
    /\ dbURL = ""
    /\ events = <<>>
    /\ teams = <<>>
    /\ next = 1
    /\ calls = <<>>
    /\ exitCode = "running"
    /\ tablesExist = FALSE
    /\ shows = <<>>
    /\ showTeams = {}
    /\ upserts = <<>>
    /\ pruned = FALSE
    /\ lastErr = ""

Init ==
    /\ desc \in Descs
    /\ dict \in Dicts
    /\ pc = "cue"
    /\ candidates = <<>>
    /\ cueCands = <<>>
    /\ ran = <<>>
    /\ result = <<>>
    /\ chunk = ""
    /\ accepted = FALSE
    /\ AuxIdle

\* 1) Cue lines.
CueLineScan ==
    /\ pc = "cue"
    /\ candidates' = cueScan(desc)
    /\ cueCands' = candidates'
    /\ ran' = Append(ran, "cue")
    /\ pc' = "chunk"
    /\ UNCHANGED <<desc, dict, result, chunk, accepted, auxVars>>

\* 2) Title-case chunking, if the cue lines gave nothing.
ChunkStage ==
    /\ pc = "chunk"
    /\ IF needsChunking(candidates)
       THEN \E chunks \in titleCaseChunks(crlfNormalized(desc)) :
                /\ candidates' = candidates \o SelectSeq(chunks, LAMBDA c : chunkAccepted(c, dict))
                /\ ran' = Append(ran, "chunk")
       ELSE UNCHANGED <<candidates, ran>>
    /\ pc' = "fallback"
    /\ UNCHANGED <<desc, dict, cueCands, result, chunk, accepted, auxVars>>

\* 3) Single tokens from dict.First, if there is still nothing.
FallbackStage ==
    /\ pc = "fallback"
    /\ IF needsFallback(candidates, dict)
       THEN /\ candidates' = candidates \o SelectSeq(singleTitleTokens(crlfNormalized(desc)),
                                                     LAMBDA tok : fallbackAccepted(tok, dict))
            /\ ran' = Append(ran, "fallback")
       ELSE UNCHANGED <<candidates, ran>>
    /\ pc' = "normalize"
    /\ UNCHANGED <<desc, dict, cueCands, result, chunk, accepted, auxVars>>

\* return normalizeAndDedup(candidates)
Normalize ==
    /\ pc = "normalize"
    /\ \E order \in mapOrders(bestOf(candidates)) :
           result' = normalizeAndDedup(candidates, order)
    /\ ran' = Append(ran, "normalize")
    /\ pc' = "done"
    /\ UNCHANGED <<desc, dict, candidates, cueCands, chunk, accepted, auxVars>>

Next == CueLineScan \/ ChunkStage \/ FallbackStage \/ Normalize

Spec == Init /\ [][Next]_vars

----------------------------------------------------------------------------
(* Specification SpecDict: acceptByDict on a chunk and a dictionary.      *)

InitDict ==
    /\ chunk \in DictChunks
    /\ dict \in AcceptDicts
    /\ pc = "accept"
    /\ accepted = FALSE
    /\ desc = ""
    /\ candidates = <<>>
    /\ cueCands = <<>>
    /\ ran = <<>>
    /\ result = <<>>
    /\ AuxIdle

AcceptStep ==
    /\ pc = "accept"
    /\ accepted' = acceptByDict(chunk, dict)
    /\ pc' = "accepted"
    /\ UNCHANGED <<desc, dict, candidates, cueCands, ran, result, chunk, auxVars>>

SpecDict == InitDict /\ [][AcceptStep]_vars

----------------------------------------------------------------------------
(* Specification SpecNorm: normalizeAndDedup on a list of candidates.      *)

InitNorm ==
    /\ candidates \in CandLists
    /\ pc = "normalize"
    /\ dict = NilDict
    /\ desc = ""
    /\ cueCands = <<>>
    /\ ran = <<>>
    /\ result = <<>>
    /\ chunk = ""
    /\ accepted = FALSE
    /\ AuxIdle

SpecNorm == InitNorm /\ [][Normalize]_vars

----------------------------------------------------------------------------
(* Specification SpecIdem: normalizeAndDedup on its own result.            *)

\* normalizeAndDedup(result), the slice a first call returned.
Renormalize ==
    /\ pc = "done"
    /\ \E order \in mapOrders(bestOf(result)) :
           renorm' = normalizeAndDedup(result, order)
    /\ ran' = Append(ran, "normalize")
    /\ pc' = "renormalized"
    /\ UNCHANGED <<desc, dict, candidates, cueCands, result, chunk, accepted, sortedChunks,
                   mainVars, storeVars>>

NextIdem == Normalize \/ Renormalize

SpecIdem == InitNorm /\ [][NextIdem]_vars

----------------------------------------------------------------------------
(* Specification SpecChunks: titleCaseChunks on a text.                    *)

\* The texts InferPlayerNames hands to titleCaseChunks, and three with quotes
\* and runs of four and five words.
ChunkTexts ==
    {crlfNormalized(d) : d \in Descs}
        \cup { "Al Roe 'Sam' \"Jo\" Lee met Bo",
               "Sam ' Lee and \"\" Jo",
               "Jo Roe Al Lee Bo, Sam. Al Jo Roe Lee; Mary Jo" }

InitChunks ==
    /\ desc \in ChunkTexts
    /\ pc = "chunk"
    /\ dict = NilDict
    /\ candidates = <<>>
    /\ cueCands = <<>>
    /\ ran = <<>>
    /\ result = <<>>
    /\ chunk = ""
    /\ accepted = FALSE
    /\ AuxIdle

\* chunks := titleCaseChunks(desc)
TitleCaseChunks ==
    /\ pc = "chunk"
    /\ sortedChunks' \in titleCaseChunks(desc)
    /\ pc' = "chunked"
    /\ UNCHANGED <<desc, dict, candidates, cueCands, ran, result, chunk, accepted, renorm,
                   mainVars, storeVars>>

SpecChunks == InitChunks /\ [][TitleCaseChunks]_vars

----------------------------------------------------------------------------
(* Specification SpecMain: one run of the command-line driver.             *)

ArgSets ==
    [dryRun : {"unset", "true", "false"}, recreateDB : BOOLEAN,
     postURL : {"", "https://shop/show/1"}, src : {"", "shows.ics"},
     useTeamsFile : BOOLEAN]

\* flag.Bool("dry-run", true, ...): without the flag dry-run is true.
dryRunDefault == TRUE

\* The flag with false for its default.
dryRunFlagDefaultOff(a) == IF a.dryRun = "unset" THEN FALSE ELSE a.dryRun = "true"

\* *dryRun after flag.Parse.
dryRunFlag(a) == IF a.dryRun = "unset" THEN dryRunDefault ELSE a.dryRun = "true"

\* The events FromFile and FromURL may hand back.
CalendarEvents ==
    { [UID |-> "u1", Summary |-> "Dogs", Description |-> "Big Dogs and Night Shift",
       TeamIDs |-> <<>>, Teams |-> <<>>],
      [UID |-> "u2", Summary |-> "Owls", Description |-> "Owls at nine",
       TeamIDs |-> <<>>, Teams |-> <<>>],
      [UID |-> "u3", Summary |-> "Open", Description |-> "Open mic",
       TeamIDs |-> <<>>, Teams |-> <<>>] }

Calendars == UNION { [1..n -> CalendarEvents] : n \in 0..MaxEvents }

\* The lines of teams.txt; a team read from the file has no ID.
TeamsFile == <<"Big Dogs", "Owls">>

\* The rows of table "Team".
TeamRows ==
    << [Name |-> "Big Dogs", ID |-> "t1"], [Name |-> "Owls", ID |-> "t2"],
       [Name |-> "Night Shift", ID |-> "t3"] >>

findTeams(d, ts) ==
    SelectSeq(ts, LAMBDA t : ByteLen(t.Name) > 4 /\ Contains(d, t.Name))

\* A team found in the event's description has an empty ID.
hasEmptyID(ev, ts) ==
    \E k \in 1..Len(findTeams(ev.Description, ts)) : findTeams(ev.Description, ts)[k].ID = ""

\* The event after the inner loop: the teams found appended, up to the first
\* one with an empty ID.
withTeams(ev, ts) ==
    LET parsed == findTeams(ev.Description, ts)
        bad == {k \in 1..Len(parsed) : parsed[k].ID = ""}
        upto == IF bad = {} THEN Len(parsed) ELSE Min(bad) - 1
    IN [ev EXCEPT !.TeamIDs = @ \o [k \in 1..upto |-> parsed[k].ID],
                  !.Teams = @ \o [k \in 1..upto |-> parsed[k].Name]]

\* The variables main leaves alone.
mainFrame ==
    <<desc, dict, candidates, cueCands, ran, result, chunk, accepted, renorm, sortedChunks,
      storeVars>>

InitMain ==
    /\ args \in ArgSets
    /\ dbURL \in {"", "postgres://db"}
    /\ pc = "main"
    /\ events = <<>>
    /\ teams = <<>>
    /\ next = 1
    /\ calls = <<>>
    /\ exitCode = "running"
    /\ desc = ""
    /\ dict = NilDict
    /\ candidates = <<>>
    /\ cueCands = <<>>
    /\ ran = <<>>
    /\ result = <<>>
    /\ chunk = ""
    /\ accepted = FALSE
    /\ renorm = <<>>
    /\ sortedChunks = <<>>
    /\ tablesExist = FALSE
    /\ shows = <<>>
    /\ showTeams = {}
    /\ upserts = <<>>
    /\ pruned = FALSE
    /\ lastErr = ""

\* -post-url: fetch the image and return.
FetchPostImage ==
    /\ pc = "main"
    /\ IF args.postURL # ""
       THEN /\ \E ok \in BOOLEAN : exitCode' = IF ok THEN "ok" ELSE "failed"
            /\ pc' = "exited"
       ELSE /\ pc' = "open"
            /\ UNCHANGED exitCode
    /\ UNCHANGED <<args, dbURL, events, teams, next, calls, mainFrame>>

\* DATABASE_URL, showstore.Open and the -src check.
OpenStore ==
    /\ pc = "open"
    /\ \E ok \in BOOLEAN :
          IF dbURL = "" \/ ~ok \/ args.src = ""
          THEN exitCode' = "failed" /\ pc' = "exited"
          ELSE pc' = "read" /\ UNCHANGED exitCode
    /\ UNCHANGED <<args, dbURL, events, teams, next, calls, mainFrame>>

\* icalplayers.FromURL or FromFile.
ReadEvents ==
    /\ pc = "read"
    /\ \E ok \in BOOLEAN, evs \in Calendars :
          IF ~ok THEN /\ exitCode' = "failed" /\ pc' = "exited"
                      /\ UNCHANGED events
          ELSE IF Len(evs) = 0 THEN /\ exitCode' = "ok" /\ pc' = "exited"
                                    /\ UNCHANGED events
          ELSE /\ events' = evs
               /\ pc' = "teams"
               /\ UNCHANGED exitCode
    /\ UNCHANGED <<args, dbURL, teams, next, calls, mainFrame>>

\* teams.txt or store.GetAllTeams.
LoadTeams ==
    /\ pc = "teams"
    /\ \E ok \in BOOLEAN :
          /\ calls' = IF args.useTeamsFile THEN calls
                      ELSE Append(calls, [op |-> "GetAllTeams", ok |-> ok])
          /\ IF ~ok THEN /\ exitCode' = "failed" /\ pc' = "exited"
                         /\ UNCHANGED teams
             ELSE /\ teams' = IF args.useTeamsFile
                              THEN [k \in 1..Len(TeamsFile) |-> [Name |-> TeamsFile[k], ID |-> ""]]
                              ELSE TeamRows
                  /\ pc' = "match"
                  /\ UNCHANGED exitCode
    /\ UNCHANGED <<args, dbURL, events, next, mainFrame>>

\* The loop over events that fills TeamIDs and Teams; it returns from main at
\* the first team found that has an empty ID.
MatchTeams ==
    /\ pc = "match"
    /\ LET stops == {i \in 1..Len(events) : hasEmptyID(events[i], teams)}
           last == IF stops = {} THEN Len(events) ELSE Min(stops)
       IN /\ events' = [i \in 1..Len(events) |->
                           IF i <= last THEN withTeams(events[i], teams) ELSE events[i]]
          /\ IF stops = {} THEN pc' = "dryrun" /\ UNCHANGED exitCode
             ELSE exitCode' = "ok" /\ pc' = "exited"
    /\ UNCHANGED <<args, dbURL, teams, next, calls, mainFrame>>

\* if *dryRun { return }
CheckDryRun ==
    /\ pc = "dryrun"
    /\ IF dryRunFlag(args) THEN exitCode' = "ok" /\ pc' = "exited"
       ELSE /\ pc' = IF args.recreateDB THEN "drop" ELSE "delete"
            /\ UNCHANGED exitCode
    /\ UNCHANGED <<args, dbURL, events, teams, next, calls, mainFrame>>

\* store.Drop(ctx)
MainDrop ==
    /\ pc = "drop"
    /\ \E ok \in BOOLEAN :
          /\ calls' = Append(calls, [op |-> "Drop", ok |-> ok])
          /\ IF ok THEN pc' = "migrate" /\ UNCHANGED exitCode
             ELSE exitCode' = "failed" /\ pc' = "exited"
    /\ UNCHANGED <<args, dbURL, events, teams, next, mainFrame>>

\* store.Migrate(ctx)
MainMigrate ==
    /\ pc = "migrate"
    /\ \E ok \in BOOLEAN :
          /\ calls' = Append(calls, [op |-> "Migrate", ok |-> ok])
          /\ IF ok THEN pc' = "upsert" /\ UNCHANGED exitCode
             ELSE exitCode' = "failed" /\ pc' = "exited"
    /\ UNCHANGED <<args, dbURL, events, teams, next, mainFrame>>

\* store.DeletePastEvents(ctx)
MainDeletePastEvents ==
    /\ pc = "delete"
    /\ \E ok \in BOOLEAN :
          /\ calls' = Append(calls, [op |-> "DeletePastEvents", ok |-> ok])
          /\ IF ok THEN pc' = "upsert" /\ UNCHANGED exitCode
             ELSE exitCode' = "failed" /\ pc' = "exited"
    /\ UNCHANGED <<args, dbURL, events, teams, next, mainFrame>>

\* One turn of the storing loop: store.Upsert(ctx, e).
MainUpsert ==
    /\ pc = "upsert"
    /\ next <= Len(events)
    /\ \E ok \in BOOLEAN :
          /\ calls' = Append(calls, [op |-> "Upsert", ok |-> ok])
          /\ IF ok THEN next' = next + 1 /\ UNCHANGED <<pc, exitCode>>
             ELSE exitCode' = "failed" /\ pc' = "exited" /\ UNCHANGED next
    /\ UNCHANGED <<args, dbURL, events, teams, mainFrame>>

\* The loop is over: "Stored %d events."
MainReturn ==
    /\ pc = "upsert"
    /\ next > Len(events)
    /\ exitCode' = "ok"
    /\ pc' = "exited"
    /\ UNCHANGED <<args, dbURL, events, teams, next, calls, mainFrame>>

NextMain ==
    \/ FetchPostImage
    \/ OpenStore
    \/ ReadEvents
    \/ LoadTeams
    \/ MatchTeams
    \/ CheckDryRun
    \/ MainDrop
    \/ MainMigrate
    \/ MainDeletePastEvents
    \/ MainUpsert
    \/ MainReturn

SpecMain == InitMain /\ [][NextMain]_vars

----------------------------------------------------------------------------
(* Specification SpecStore: calls of the Store methods on one database.    *)

\* Helper: TEXT[] wants []string.
strSliceToTextArray(in) == in

StoreUIDs == {"u1", "u2"}

\* The ids of the rows of table "Team", which show_teams.team_id references.
teamIDsKnown == {TeamRows[k].ID : k \in 1..Len(TeamRows)}

\* The events Upsert is called with. Start is "none" for a nil pointer; "t9"
\* is the id of no team.
StoreEvents ==
    UNION { { [UID |-> u, Summary |-> "Dogs", Description |-> "Big Dogs", URL |-> "https://shop/1",
               PostImageURL |-> "https://shop/1.png", Start |-> "past",
               Players |-> <<"Sam Lee">>, Teams |-> <<"Big Dogs">>, TeamIDs |-> <<"t1">>],
              [UID |-> u, Summary |-> "Night", Description |-> "Night Shift and Big Dogs",
               URL |-> "", PostImageURL |-> "", Start |-> "future",
               Players |-> <<>>, Teams |-> <<"Night Shift", "Big Dogs">>,
               TeamIDs |-> <<"t3", "t1">>],
              [UID |-> u, Summary |-> "Open", Description |-> "Open mic", URL |-> "",
               PostImageURL |-> "", Start |-> "none",
               Players |-> <<"Al Roe">>, Teams |-> <<>>, TeamIDs |-> <<>>],
              [UID |-> u, Summary |-> "Twice", Description |-> "Owls Inc, Owls Inc", URL |-> "",
               PostImageURL |-> "", Start |-> "future",
               Players |-> <<>>, Teams |-> <<"Owls Inc", "Owls Inc">>,
               TeamIDs |-> <<"t2", "t2">>],
              [UID |-> u, Summary |-> "Ghosts", Description |-> "Ghosts", URL |-> "",
               PostImageURL |-> "", Start |-> "future",
               Players |-> <<>>, Teams |-> <<"Ghosts">>, TeamIDs |-> <<"t9">>] }
            : u \in StoreUIDs }

\* The columns upsertShow writes. created_at and updated_at are set from
\* NOW() and addl_teams is left at its default; they are no fields of the
\* event and are not in the model.
showRow(e) ==
    [summary |-> e.Summary, description |-> e.Description, url |-> e.URL,
     post_image_url |-> e.PostImageURL, start |-> e.Start,
     players |-> strSliceToTextArray(e.Players), teams |-> strSliceToTextArray(e.Teams)]

\* INSERT INTO shows ... ON CONFLICT (uid) DO UPDATE SET ...
upsertShow(rows, e) ==
    [u \in DOMAIN rows \cup {e.UID} |-> IF u = e.UID THEN showRow(e) ELSE rows[u]]

\* syncShowTeams that first deletes the links of the show.
syncShowTeamsReplacing(links, showUID, teamIDs) ==
    {l \in links : l[1] # showUID} \cup {<<showUID, teamIDs[k]>> : k \in 1..Len(teamIDs)}

\* INSERT INTO show_teams ... ON CONFLICT DO NOTHING, for each id.
syncShowTeams(links, showUID, teamIDs) ==
    links \cup {<<showUID, teamIDs[k]>> : k \in 1..Len(teamIDs)}

\* The variables the Store methods leave alone.
storeFrame ==
    <<desc, dict, pc, candidates, cueCands, ran, result, chunk, accepted, renorm, sortedChunks,
      mainVars>>

InitStore ==
    /\ tablesExist \in BOOLEAN
    /\ shows = <<>>
    /\ showTeams = {}
    /\ upserts = <<>>
    /\ pruned = FALSE
    /\ lastErr = ""
    /\ pc = "store"
    /\ desc = ""
    /\ dict = NilDict
    /\ candidates = <<>>
    /\ cueCands = <<>>
    /\ ran = <<>>
    /\ result = <<>>
    /\ chunk = ""
    /\ accepted = FALSE
    /\ renorm = <<>>
    /\ sortedChunks = <<>>
    /\ args = [dryRun |-> "unset", recreateDB |-> FALSE, postURL |-> "", src |-> "",
               useTeamsFile |-> FALSE]
    /\ dbURL = ""
    /\ events = <<>>
    /\ teams = <<>>
    /\ next = 1
    /\ calls = <<>>
    /\ exitCode = "running"

\* CREATE TABLE IF NOT EXISTS ...; ok is FALSE when the statement fails.
Migrate ==
    /\ \E ok \in BOOLEAN :
          IF ok THEN tablesExist' = TRUE /\ lastErr' = ""
          ELSE lastErr' = "error" /\ UNCHANGED tablesExist
    /\ UNCHANGED <<shows, showTeams, upserts, pruned, storeFrame>>

\* DROP TABLE IF EXISTS show_teams; DROP TABLE IF EXISTS shows;
Drop ==
    /\ \E ok \in BOOLEAN :
          IF ok THEN /\ tablesExist' = FALSE
                     /\ shows' = <<>>
                     /\ showTeams' = {}
                     /\ pruned' = TRUE
                     /\ lastErr' = ""
          ELSE lastErr' = "error" /\ UNCHANGED <<tablesExist, shows, showTeams, pruned>>
    /\ UNCHANGED <<upserts, storeFrame>>

\* DELETE FROM shows WHERE start < NOW(); the links of a deleted show go with
\* it (ON DELETE CASCADE); a row without start stays.
DeletePastEvents ==
    /\ \E ok \in BOOLEAN :
          IF ok /\ tablesExist
          THEN /\ shows' = [u \in {v \in DOMAIN shows : shows[v].start # "past"} |-> shows[u]]
               /\ showTeams' = {l \in showTeams : shows[l[1]].start # "past"}
               /\ pruned' = TRUE
               /\ lastErr' = ""
          ELSE lastErr' = "error" /\ UNCHANGED <<shows, showTeams, pruned>>
    /\ UNCHANGED <<tablesExist, upserts, storeFrame>>

\* Upsert(ctx, e): one transaction; it commits when every statement went
\* through, and leaves the tables as they were otherwise.
Upsert ==
    /\ Len(upserts) < MaxUpserts
    /\ \E e \in StoreEvents, ok \in BOOLEAN :
          IF ok /\ tablesExist /\ \A k \in 1..Len(e.TeamIDs) : e.TeamIDs[k] \in teamIDsKnown
          THEN /\ shows' = upsertShow(shows, e)
               /\ showTeams' = syncShowTeams(showTeams, e.UID, e.TeamIDs)
               /\ upserts' = Append(upserts, e)
               /\ lastErr' = ""
          ELSE lastErr' = "error" /\ UNCHANGED <<shows, showTeams, upserts>>
    /\ UNCHANGED <<tablesExist, pruned, storeFrame>>

NextStore == Migrate \/ Drop \/ DeletePastEvents \/ Upsert

SpecStore == InitStore /\ [][NextStore]_vars

----------------------------------------------------------------------------
(* The claims.                                                             *)

Done == pc = "done"

\* The lines of desc that match cueLine with a role containing "host" or
\* "musical", trimmed.
nonPlayerCueLines(d) ==
    LET lines == linesOf(d)
    IN { TrimSpace(lines[i]) : i \in { k \in 1..Len(lines) :
            \E m \in cueLine(TrimSpace(lines[k])) : isNonPlayerRole(ToLower(TrimSpace(m[1]))) } }

\* The names that occur in the segments of such lines and in no other line.
hostOnlyNames(d) ==
    LET lines == linesOf(d)
        hostLines == nonPlayerCueLines(d)
        segs == UNION { UNION { Range(sepReSplit(m[2])) : m \in cueLine(ln) } : ln \in hostLines }
        others == { TrimSpace(lines[i]) : i \in 1..Len(lines) } \ hostLines
    IN { n \in { cleanName(p) : p \in segs } :
            n # "" /\ \A l \in others : ~Contains(l, n) }

\* C1: a name that occurs only in the segments of a "host" or "musical" cue
\* line never appears in the result of InferPlayerNames, whatever the
\* dictionary.
C1_HostsNeverInResult ==
    Done => \A n \in hostOnlyNames(desc) : n \notin Range(result)

dictIsEmpty(d) == d.First = {} /\ d.Last = {} /\ d.Full = {}

\* C2: with the dictionary absent, or present with three empty sets,
\* acceptByDict accepts a chunk iff it has two or more words.
C2_EmptyDictLikeAbsent ==
    (pc = "accepted" /\ (~dict.present \/ dictIsEmpty(dict)))
        => (accepted <=> Len(Fields(chunk)) >= 2)

stopEntriesLower == stopPhrases \cup { ToLower(x) : x \in stopSingles }

\* C3: no string of the result equals, case-insensitively, an entry of
\* stopPhrases or of stopSingles.
C3_NoStopEntryInResult ==
    Done => \A i \in 1..Len(result) : ToLower(result[i]) \notin stopEntriesLower

\* C4: the result is sorted ascending and holds no two entries that are equal
\* when compared case-insensitively.
C4_SortedNoDuplicates ==
    Done => \A i, j \in 1..Len(result) :
                i < j => /\ ~StrLess(result[j], result[i])
                         /\ ToLower(result[i]) # ToLower(result[j])

\* C4's case: candidates out of order, some of them merged, two or more kept.
C4_Witness ==
    /\ Done
    /\ Len(result) >= 2
    /\ Len(candidates) > Len(result)
    /\ candidates # SortStrings(candidates)

\* C5: every string of the result has 1 to 3 whitespace-separated tokens, no
\* leading or trailing whitespace, and single spaces between its tokens.
C5_OneToThreeTokens ==
    Done => \A i \in 1..Len(result) :
                /\ Len(Fields(result[i])) \in 1..3
                /\ result[i] = Join(Fields(result[i]), " ")

\* C5's case: a three-token name returned whose text in the description has
\* runs of spaces, beside a segment of more than three tokens.
C5_Witness ==
    /\ Done
    /\ \E i \in 1..Len(result) : wordCount(result[i]) = 3 /\ ~Contains(desc, result[i])
    /\ Contains(desc, "Bo Diddley Jr Sr")

\* The chunks in the order a stable sort gives: by word count descending,
\* equal counts in text order.
stableChunks(text) ==
    LET u == unsortedChunks(text)
        g(n) == SelectSeq(u, LAMBDA c : wordCount(c) = n)
    IN g(3) \o g(2) \o g(1)

\* One fixed outcome of InferPlayerNames(d, dc): the chunk sort stable, the
\* map best visited in sorted key order.
inferWithFixedOrders(d, dc) ==
    LET c1 == cueScan(d)
        c2 == IF needsChunking(c1)
              THEN SelectSeq(stableChunks(crlfNormalized(d)), LAMBDA c : chunkAccepted(c, dc))
              ELSE c1
        c3 == IF needsFallback(c2, dc)
              THEN SelectSeq(singleTitleTokens(crlfNormalized(d)), LAMBDA t : fallbackAccepted(t, dc))
              ELSE c2
        keys == CHOOSE o \in mapOrders(bestOf(c3)) : \A i, j \in 1..Len(o) : i < j => StrLess(o[i], o[j])
    IN normalizeAndDedup(c3, keys)

\* C6: every call with the same description and dictionary returns the same
\* list, whatever order the maps are ranged over in and however the chunk sort
\* orders chunks of equal word count.
C6_Deterministic ==
    Done => result = inferWithFixedOrders(desc, dict)

\* C7: InferPlayerNames("Featuring Sam Okafor and J. Rivera", emptyDict) is
\* ["J. Rivera", "Sam Okafor"].
C7_FeaturingExample ==
    (Done /\ desc = "Featuring Sam Okafor and J. Rivera" /\ dict = EmptyDict)
        => result = <<"J. Rivera", "Sam Okafor">>

Last(q) == q[Len(q)]

stageRank(st) ==
    CASE st = "cue" -> 1 [] st = "chunk" -> 2 [] st = "fallback" -> 3 [] st = "normalize" -> 4

\* C8: the chunk tokenizer and the disambiguator run only if the cue-line scan
\* gave no candidate; the single-token fallback runs only if there is still no
\* candidate and firstNames is not empty; the normalizer runs last, always; and
\* when a cue line gave a candidate, the result holds only names of cue lines.
C8_StageOrder ==
    [][ /\ (ran' # ran /\ Last(ran') = "chunk") => candidates = <<>> /\ cueCands = <<>>
        /\ (ran' # ran /\ Last(ran') = "fallback")
              => candidates = <<>> /\ cueCands = <<>> /\ dict.present /\ dict.First # {}
        /\ \A i, j \in 1..Len(ran') : i < j => stageRank(ran'[i]) < stageRank(ran'[j])
        /\ pc' = "done" => /\ pc = "normalize"
                           /\ Last(ran') = "normalize"
                           /\ ran'[1] = "cue"
        /\ (pc' = "done" /\ cueCands' # <<>>)
              => Range(result') \subseteq Range(cueCands') ]_vars

\* C8's case: a cue line gave names, and the description also holds a chunk
\* the disambiguator would accept, which the result does not hold.
C8_Witness ==
    /\ Done
    /\ cueCands # <<>>
    /\ ran = <<"cue", "normalize">>
    /\ \E c \in Range(unsortedChunks(crlfNormalized(desc))) :
           chunkAccepted(c, dict) /\ c \notin Range(result)

\* The words of a description: split at white space and the delimiters, the
\* quotes around each word removed.
wordsOf(d) ==
    LET w == FieldsFunc(d, wordDelims)
    IN [i \in 1..Len(w) |-> Trim(w[i], quoteChars)]

\* C9: when the single-token fallback runs, the candidates are exactly the words
\* that satisfy the name-token predicate, are in firstNames when lower-cased and
\* are no stopSingles entry; with firstNames = {"sam"},
\* InferPlayerNames("Join Sam for a great show!", dict) = ["Sam"].
C9_FallbackAccepts ==
    /\ "fallback" \in Range(ran)
          => candidates = SelectSeq(wordsOf(crlfNormalized(desc)),
                                    LAMBDA w : /\ looksLikeNameToken(w)
                                               /\ ToLower(w) \in dict.First
                                               /\ w \notin stopSingles)
    /\ (Done /\ desc = "Join Sam for a great show!" /\ dict = SamDict) => result = <<"Sam">>

\* C9's case: the example, with the fallback run.
C9_Witness ==
    /\ Done
    /\ desc = "Join Sam for a great show!"
    /\ dict = SamDict
    /\ ran = <<"cue", "chunk", "fallback", "normalize">>
    /\ result = <<"Sam">>

\* The strings normalizeAndDedup is to keep, one for each lower-cased first
\* token of the candidates cands: the longest of the group, in bytes (byBytes)
\* or in characters, and of the longest the first.
groupWinners(cands, byBytes) ==
    LET len(x) == IF byBytes THEN ByteLen(x) ELSE Len(x)
        norm == [i \in 1..Len(cands) |-> whitespaceCollapsed(cands[i])]
        idx == {i \in 1..Len(cands) : norm[i] # ""}
        group(k) == {i \in idx : dedupKey(norm[i]) = k}
        longest(k) == {i \in group(k) : \A j \in group(k) : len(norm[j]) <= len(norm[i])}
    IN { norm[Min(longest(k))] : k \in {dedupKey(norm[i]) : i \in idx} }

onePerGroup(byBytes) ==
    /\ Range(result) = groupWinners(candidates, byBytes)
    /\ Len(result) = Cardinality(groupWinners(candidates, byBytes))
    /\ \A i, j \in 1..Len(result) : i # j => dedupKey(result[i]) # dedupKey(result[j])

\* C10 as claimed: one string per lower-cased first token, the longest of the
\* group by character length, the first seen on equal length.
C10_LongestByCharacters == Done => onePerGroup(FALSE)

\* C10 as amended: one string per lower-cased first token, the longest of the
\* group by length in bytes (UTF-8), the first seen on equal length; no two
\* strings of the output share a lower-cased first token.
C10_LongestByBytes == Done => onePerGroup(TRUE)

\* C10's case: two candidates of one group, the one with more characters
\* holding no more bytes, and the other one kept.
C10_Witness ==
    /\ Done
    /\ \E i, j \in {k \in 1..Len(candidates) : whitespaceCollapsed(candidates[k]) # ""} :
          LET a == whitespaceCollapsed(candidates[i])
              b == whitespaceCollapsed(candidates[j])
          IN /\ dedupKey(a) = dedupKey(b)
             /\ Len(a) > Len(b)
             /\ ByteLen(a) <= ByteLen(b)
             /\ b \in Range(result)
    /\ Len(result) >= 2

\* C11: normalizeAndDedup is idempotent: applied to the list a first call
\* returned, it returns that list again, element for element and in the same
\* order, in whatever order the map best is ranged over.
C11_Idempotent ==
    pc = "renormalized" => renorm = result

\* C11's case: a first call that changed its input (dropped, collapsed and
\* reordered candidates) and returned two or more strings, normalized again.
C11_Witness ==
    /\ pc = "renormalized"
    /\ Len(result) >= 2
    /\ Len(candidates) > Len(result)
    /\ \E i \in 1..Len(candidates) : candidates[i] \notin Range(result)
    /\ result[1] # whitespaceCollapsed(candidates[1])
    /\ renorm = result

\* What C12 says acceptByDict(c, d) is for a dictionary d that is present.
acceptedBySpec(c, d) ==
    LET w == Fields(c)
        low(i) == ToLower(w[i])
    IN \/ ToLower(c) \in d.Full
       \/ Len(w) = 1 /\ low(1) \in d.First
       \/ Len(w) = 2 /\ (low(1) \in d.First \/ low(2) \in d.Last)
       \/ Len(w) = 3 /\ (low(1) \in d.First \/ low(3) \in d.Last)

\* C12: with a dictionary present, acceptByDict accepts a chunk exactly when
\* its lower-cased form is in the full names, or it has 1 word in the first
\* names, or it has 2 words with word 1 a first name or word 2 a last name, or
\* it has 3 words with word 1 a first name or word 3 a last name; every other
\* chunk is rejected.
C12_AcceptByDictRule ==
    (pc = "accepted" /\ dict.present) => (accepted <=> acceptedBySpec(chunk, dict))

\* C12's case: a chunk of three words accepted for its last word alone, its
\* first word no first name and its full form no full name.
C12_Witness ==
    /\ pc = "accepted"
    /\ dict.present
    /\ accepted
    /\ Len(Fields(chunk)) = 3
    /\ ToLower(Fields(chunk)[1]) \notin dict.First
    /\ ToLower(Fields(chunk)[3]) \in dict.Last
    /\ ToLower(chunk) \notin dict.Full

\* The words of text: split at the delimiters, quotes trimmed, what is left
\* empty dropped.
trimmedWords(text) ==
    LET words == FieldsFunc(text, wordDelims)
        trimmed == [i \in 1..Len(words) |-> Trim(words[i], quoteChars)]
    IN SelectSeq(trimmed, LAMBDA w : w # "")

nameWord(w) == looksLikeNameToken(w) /\ ~isStopSingle(w)

\* The maximal runs of name words in words, as pairs <<first, last>>.
maximalRuns(words) ==
    { r \in (1..Len(words)) \X (1..Len(words)) :
        /\ r[1] <= r[2]
        /\ \A k \in r[1]..r[2] : nameWord(words[k])
        /\ r[1] = 1 \/ ~nameWord(words[r[1] - 1])
        /\ r[2] = Len(words) \/ ~nameWord(words[r[2] + 1]) }

\* The runs of n words, joined by spaces, in their order in the text.
runsOfLen(words, n) ==
    LET starts == {r[1] : r \in {m \in maximalRuns(words) : m[2] - m[1] + 1 = n}}
    IN [k \in 1..Cardinality(starts) |->
            Join(SubSeq(words, Kth(starts, k), Kth(starts, k) + n - 1), " ")]

\* What C13 says titleCaseChunks(text) is.
chunksBySpec(text) ==
    LET words == trimmedWords(text)
    IN runsOfLen(words, 3) \o runsOfLen(words, 2) \o runsOfLen(words, 1)

\* C13: titleCaseChunks returns exactly the maximal runs of consecutive name
\* words outside stopSingles that have 1 to 3 words (a longer run is dropped
\* whole), ordered by word count descending, chunks of equal word count in
\* their order in the text.
C13_MaximalRunsStableOrder ==
    pc = "chunked" => sortedChunks = chunksBySpec(desc)

mutatingOps == {"Drop", "Migrate", "DeletePastEvents", "Upsert"}

\* The calls of op that main has made and that succeeded, by position.
succeeded(op) == {i \in 1..Len(calls) : calls[i].op = op /\ calls[i].ok}

\* The preparation the flags ask for has completed before call i.
preparedBefore(i) ==
    IF args.recreateDB
    THEN \E j \in succeeded("Drop"), k \in succeeded("Migrate") : j < k /\ k < i
    ELSE \E j \in succeeded("DeletePastEvents") : j < i

\* C14: the driver calls Drop, Migrate, DeletePastEvents and Upsert only with
\* dry-run off, which takes -dry-run=false on the command line; every Upsert
\* comes after a successful Drop then Migrate (recreate-db set) or a successful
\* DeletePastEvents (recreate-db not set); after a failed preparation call
\* there is no Upsert.
C14_StoreCallsGuarded ==
    \A i \in 1..Len(calls) :
        /\ calls[i].op \in mutatingOps => args.dryRun = "false"
        /\ calls[i].op = "Upsert" => preparedBefore(i)
        /\ (calls[i].op \in {"Drop", "Migrate", "DeletePastEvents"} /\ ~calls[i].ok)
               => \A j \in 1..Len(calls) : calls[j].op # "Upsert"

\* C14's case: a run with dry-run off and recreate-db set that has dropped,
\* migrated and stored two events.
C14_Witness ==
    /\ pc = "exited"
    /\ exitCode = "ok"
    /\ args.dryRun = "false"
    /\ args.recreateDB
    /\ Cardinality(succeeded("Upsert")) >= 2
    /\ succeeded("Drop") # {}
    /\ succeeded("Migrate") # {}

\* The events upserted with uid so far, in order.
upsertedAs(uid) == SelectSeq(upserts, LAMBDA e : e.UID = uid)

\* The team ids linked to uid in show_teams.
linkedTeams(uid) == {l[2] : l \in {m \in showTeams : m[1] = uid}}

\* C15: as long as no Drop or DeletePastEvents has intervened, the links of a
\* UID in show_teams are the union of the TeamIDs of all events upserted with
\* that UID (links of earlier upserts stay), and the shows row of the UID has
\* the fields of the event upserted last.
C15_LinksOnlyGrow ==
    ~pruned =>
        \A uid \in StoreUIDs :
            LET es == upsertedAs(uid)
            IN /\ linkedTeams(uid) = UNION {Range(es[k].TeamIDs) : k \in 1..Len(es)}
               /\ (uid \in DOMAIN shows) <=> (Len(es) > 0)
               /\ Len(es) > 0 =>
                      /\ shows[uid].summary = Last(es).Summary
                      /\ shows[uid].description = Last(es).Description
                      /\ shows[uid].url = Last(es).URL
                      /\ shows[uid].post_image_url = Last(es).PostImageURL
                      /\ shows[uid].start = Last(es).Start
                      /\ shows[uid].players = Last(es).Players
                      /\ shows[uid].teams = Last(es).Teams

\* C15's case: a UID upserted twice or more, still linked to a team that is
\* none of the last event's TeamIDs, its row listing the last event's teams.
C15_Witness ==
    /\ ~pruned
    /\ \E uid \in StoreUIDs :
          /\ Len(upsertedAs(uid)) >= 2
          /\ \E t \in linkedTeams(uid) : t \notin Range(Last(upsertedAs(uid)).TeamIDs)
          /\ shows[uid].teams = Last(upsertedAs(uid)).Teams

=============================================================================
